---- MODULE Spec2Model ----
(***************************************************************************)
(* Streaming traceroute engine of the Electron main process                *)
(* (TracerouteProvider): the line parser parseTracerouteLine and the       *)
(* orchestrator runTracerouteStreaming / stopActiveTraceroute, together    *)
(* with the child-process events that drive its handlers.                  *)
(*                                                                         *)
(* Text is a sequence of one-character strings, so that splitting,         *)
(* buffering and the regular expressions of the parser are computed on     *)
(* characters as the code computes them.                                   *)
(***************************************************************************)
EXTENDS Integers, Sequences, FiniteSets, TLC

\* ------------------------------------------------------------------ text

Digits == {"0", "1", "2", "3", "4", "5", "6", "7", "8", "9"}

HexLetters == {"a", "b", "c", "d", "e", "f", "A", "B", "C", "D", "E", "F"}

HexDigits == Digits \cup HexLetters

\* \s of a JavaScript regular expression, and what trim() strips
Whitespace == {" ", "\t", "\n", "\r"}

\* null of a string or number field, and the "no hop" result of the parser
Null == <<>>

DigitVal(c) ==
    CASE c = "0" -> 0 [] c = "1" -> 1 [] c = "2" -> 2 [] c = "3" -> 3
      [] c = "4" -> 4 [] c = "5" -> 5 [] c = "6" -> 6 [] c = "7" -> 7
      [] c = "8" -> 8 [] c = "9" -> 9

\* parseInt(ds, 10) of a non-empty run of decimal digits
RECURSIVE parseInt(_)
parseInt(ds) ==
    IF ds = <<>> THEN 0
    ELSE 10 * parseInt(SubSeq(ds, 1, Len(ds) - 1)) + DigitVal(ds[Len(ds)])

\* length of the longest run of characters of S that starts at position i
RECURSIVE SpanLen(_, _, _)
SpanLen(s, i, S) ==
    IF i > Len(s) \/ i < 1 THEN 0
    ELSE IF s[i] \in S THEN 1 + SpanLen(s, i + 1, S) ELSE 0

\* s.substring(n): s without its first n characters
Substring(s, n) == SubSeq(s, n + 1, Len(s))

\* s.includes(sub)
Includes(s, sub) ==
    \E i \in 0..(Len(s) - Len(sub)) : SubSeq(s, i + 1, i + Len(sub)) = sub

\* s.trim()
RECURSIVE TrimRight(_)
TrimRight(s) ==
    IF s = <<>> THEN s
    ELSE IF s[Len(s)] \in Whitespace THEN TrimRight(SubSeq(s, 1, Len(s) - 1))
    ELSE s

Trim(s) == TrimRight(Substring(s, SpanLen(s, 1, Whitespace)))

\* s.split(c) for a one-character separator: never empty, the last element
\* is what follows the last separator
RECURSIVE SplitOn(_, _)
SplitOn(s, c) ==
    LET n == SpanLen(s, 1, {x \in {s[k] : k \in 1..Len(s)} : x # c})
    IN  IF n = Len(s) THEN <<s>>
        ELSE <<SubSeq(s, 1, n)>> \o SplitOn(Substring(s, n + 1), c)

\* s.trim().split(/\s+/): the whitespace-separated parts; [""] for a blank s
RECURSIVE SplitWs(_)
SplitWs(t) ==
    LET n == SpanLen(t, 1, {x \in {t[k] : k \in 1..Len(t)} : x \notin Whitespace})
        w == SpanLen(t, n + 1, Whitespace)
    IN  IF n = Len(t) THEN <<t>>
        ELSE <<SubSeq(t, 1, n)>> \o SplitWs(Substring(t, n + w))

Parts(s) == SplitWs(Trim(s))

\* segments.join(':')
RECURSIVE Join(_, _)
Join(segs, c) ==
    IF Len(segs) = 0 THEN <<>>
    ELSE IF Len(segs) = 1 THEN segs[1]
    ELSE segs[1] \o <<c>> \o Join(Tail(segs), c)

AllIn(s, S) == \A k \in 1..Len(s) : s[k] \in S

\* --------------------------------------------------------- line parser

BannerV4 == <<"t", "r", "a", "c", "e", "r", "o", "u", "t", "e", " ", "t", "o">>

BannerV6 == <<"t", "r", "a", "c", "e", "r", "o", "u", "t", "e", "6", " ", "t", "o">>

TimeoutMarker == <<"*", " ", "*", " ", "*">>

\* line.match(/^\s*(\d+)\s+/): the three greedy runs at the start of the line
HopMatchWs0(line) == SpanLen(line, 1, Whitespace)

HopMatchDigits(line) == SpanLen(line, HopMatchWs0(line) + 1, Digits)

HopMatchWs1(line) ==
    SpanLen(line, HopMatchWs0(line) + HopMatchDigits(line) + 1, Whitespace)

HopMatches(line) == HopMatchDigits(line) >= 1 /\ HopMatchWs1(line) >= 1

\* hopMatch[0].length and parseInt(hopMatch[1], 10)
HopMatchLen(line) == HopMatchWs0(line) + HopMatchDigits(line) + HopMatchWs1(line)

\* the length of the captured digits taken for their value
HopNum_Digits(line) == HopMatchDigits(line)

HopNum(line) ==
    parseInt(SubSeq(line, HopMatchWs0(line) + 1,
                    HopMatchWs0(line) + HopMatchDigits(line)))

\* /^\d+\.\d+\.\d+\.\d+$/
IPv4_PATTERN(tok) ==
    LET g == SplitOn(tok, ".")
    IN  /\ Len(g) = 4
        /\ \A k \in 1..4 : g[k] # <<>> /\ AllIn(g[k], Digits)

\* /^[0-9a-fA-F:]+:[0-9a-fA-F:]+$/
IPv6_PATTERN(tok) ==
    /\ AllIn(tok, HexDigits \cup {":"})
    /\ \E i \in 2..(Len(tok) - 1) : tok[i] = ":"

\* /^([0-9a-fA-F]+-[0-9a-fA-F-]+)/: the captured prefix, Null without a match
DASHED_IPv6_PATTERN(host) ==
    LET n1 == SpanLen(host, 1, HexDigits)
        n2 == SpanLen(host, n1 + 2, HexDigits \cup {"-"})
    IN  IF n1 >= 1 /\ n1 + 1 <= Len(host) /\ host[n1 + 1] = "-" /\ n2 >= 1
        THEN SubSeq(host, 1, n1 + 1 + n2)
        ELSE Null

\* segments.length >= 4 && segments.every(s => /^[0-9a-fA-F]{1,4}$/.test(s))
SegmentsAreIPv6(segments) ==
    /\ Len(segments) >= 4
    /\ \A k \in 1..Len(segments) :
          Len(segments[k]) \in 1..4 /\ AllIn(segments[k], HexDigits)

\* the address a dashed hostname encodes, Null when it encodes none
DashedIp(host) ==
    LET dashedPart == DASHED_IPv6_PATTERN(host)
    IN  IF dashedPart = Null THEN Null
        ELSE IF SegmentsAreIPv6(SplitOn(dashedPart, "-"))
             THEN Join(SplitOn(dashedPart, "-"), ":")
             ELSE Null

\* a part that begins with "(" dotted-decimal ")": the address between the
\* parentheses, Null otherwise
ParenIp(tok) ==
    LET n == SpanLen(tok, 2, Digits \cup {"."})
    IN  IF /\ Len(tok) >= 2 /\ tok[1] = "("
           /\ n + 2 <= Len(tok) /\ tok[n + 2] = ")"
           /\ IPv4_PATTERN(SubSeq(tok, 2, n + 1))
        THEN SubSeq(tok, 2, n + 1)
        ELSE Null

\* restOfLine.match(/(\S+)\s+\((\d+\.\d+\.\d+\.\d+)\)/): the index of the part
\* captured as hostname (the leftmost part followed by "(ipv4)"), 0 without
\* a match
Ipv4ParenMatch(parts) ==
    LET hits == {k \in 1..(Len(parts) - 1) : ParenIp(parts[k + 1]) # Null}
    IN  IF hits = {} THEN 0 ELSE CHOOSE k \in hits : \A j \in hits : k <= j

\* /(\d+\.?\d*)\s*ms/ tried at position i of s: the end of the captured
\* number (0 when there is no match at i)
RttEndAt(s, i) ==
    LET n1     == SpanLen(s, i, Digits)
        dot    == i + n1
        hasDot == dot <= Len(s) /\ s[dot] = "."
        n2     == IF hasDot THEN SpanLen(s, dot + 1, Digits) ELSE 0
        last   == IF hasDot THEN dot + n2 ELSE dot - 1
        m      == last + 1 + SpanLen(s, last + 1, Whitespace)
    IN  IF n1 >= 1 /\ m + 1 <= Len(s) /\ s[m] = "m" /\ s[m + 1] = "s"
        THEN last ELSE 0

\* the text captured by the leftmost match, Null without a match
RttMatch(s) ==
    LET hits == {i \in 1..Len(s) : RttEndAt(s, i) # 0}
    IN  IF hits = {} THEN Null
        ELSE LET i == CHOOSE k \in hits : \A j \in hits : k <= j
             IN  SubSeq(s, i, RttEndAt(s, i))

RECURSIVE StripZeros(_)
StripZeros(ds) ==
    IF ds # <<>> /\ ds[Len(ds)] = "0" THEN StripZeros(SubSeq(ds, 1, Len(ds) - 1))
    ELSE ds

\* parseFloat of digits, an optional point and digits: the integer part and
\* the significant decimals
parseFloat(txt) ==
    LET n1 == SpanLen(txt, 1, Digits)
    IN  [int  |-> parseInt(SubSeq(txt, 1, n1)),
         frac |-> StripZeros(Substring(txt, n1 + 1))]

\* the rtt field: Null or <<value>>
Rtt(restOfLine) ==
    IF RttMatch(restOfLine) = Null THEN Null
    ELSE <<parseFloat(RttMatch(restOfLine))>>

\* a return statement that keeps hostname as captured
Hop_KeepHostname(hopNum, ip, hostname, rtt) ==
    [hop |-> hopNum, ip |-> ip, hostname |-> hostname, rtt |-> rtt]

Hop(hopNum, ip, hostname, rtt) ==
    [hop |-> hopNum, ip |-> ip,
     hostname |-> IF hostname # ip THEN hostname ELSE Null, rtt |-> rtt]

\* a chain without the ipv4ParenMatch branch
HostAndIp_NoParen(parts) ==
    IF IPv4_PATTERN(parts[1]) \/ IPv6_PATTERN(parts[1])
    THEN [hostname |-> Null, ip |-> parts[1]]
    ELSE [hostname |-> parts[1], ip |-> DashedIp(parts[1])]

\* hostname and ip as the if/else chain on ipv4ParenMatch and firstPart sets
\* them
HostAndIp(parts) ==
    LET firstPart == parts[1]
        k == Ipv4ParenMatch(parts)
    IN  IF k # 0 THEN [hostname |-> parts[k], ip |-> ParenIp(parts[k + 1])]
        ELSE IF IPv4_PATTERN(firstPart) THEN [hostname |-> Null, ip |-> firstPart]
        ELSE IF IPv6_PATTERN(firstPart) THEN [hostname |-> Null, ip |-> firstPart]
        ELSE [hostname |-> firstPart, ip |-> DashedIp(firstPart)]

\* parseTracerouteLine(line): <<>> for null, <<hop>> for a hop
parseTracerouteLine(line) ==
    IF Trim(line) = <<>> \/ Includes(line, BannerV4) \/ Includes(line, BannerV6)
    THEN Null
    ELSE IF ~HopMatches(line) THEN Null
    ELSE IF Includes(line, TimeoutMarker)
         THEN <<[hop |-> HopNum(line), ip |-> Null, hostname |-> Null, rtt |-> Null]>>
    ELSE LET restOfLine == Substring(line, HopMatchLen(line))
             parts == Parts(restOfLine)
         IN  IF Len(parts) < 2 THEN Null
             ELSE <<Hop(HopNum(line), HostAndIp(parts).ip,
                        HostAndIp(parts).hostname, Rtt(restOfLine))>>

\* ------------------------------------------------------------ bounds

\* number of runTracerouteStreaming calls in one behaviour
MaxRuns == 2

\* number of characters all the children of one behaviour write together
MaxChars == 8

\* the same for the behaviours of a single run (SpecStream)
MaxStreamChars == 14

\* seconds of running time a child is followed for (SpecTimed)
TickSeconds == 52

\* the same for the behaviours of a run whose output begins with noise
\* (SpecNoise)
MaxNoiseChars == 23

\* ------------------------------------------------- the child's output

\* "1 a b" newline: hop 1, hostname a
LineA == <<"1", " ", "a", " ", "b", "\n">>

\* "12 c 3ms" without a final newline: hop 12, hostname c, rtt 3
LineB == <<"1", "2", " ", "c", " ", "3", "m", "s">>

\* "2 c d" without a final newline: hop 2, hostname c
LineC == <<"2", " ", "c", " ", "d">>

\* "x" newline: no hop
LineX == <<"x", "\n">>

\* "traceroute to" newline: the start of the banner the tool prints first
LineBanner ==
    <<"t", "r", "a", "c", "e", "r", "o", "u", "t", "e", " ", "t", "o", "\n">>

\* a banner, a blank line and a line of noise, and then the line of hop 1
NoiseThenHop == LineBanner \o <<"\n">> \o LineX \o LineA

\* what the tool may write to stdout and to stderr in one run
OutTexts ==
    {<<>>, LineX, LineA, LineB, LineA \o LineC, LineA \o LineB, NoiseThenHop}

\* "9 a b" newline "10 c d" without a final newline: hops 9 and 10
LineNineTen ==
    <<"9", " ", "a", " ", "b", "\n", "1", "0", " ", "c", " ", "d">>

ErrTexts == {<<>>, LineA, LineNineTen}

\* ------------------------------------------------------- orchestrator

Platforms == {"darwin", "linux", "win32", "freebsd"}

Supported(p) == p = "darwin" \/ p = "linux" \/ p = "win32"

Runs == 1..MaxRuns

\* the status handed to the 'close' listener: an exit code, null after a
\* signal, the negative errno of a failed spawn
ExitCodes == {"0", "1"}

SignalCode == "null"

SpawnFailCode == "-2"

SpawnErrorMessage == <<"spawn traceroute ENOENT">>

UnsupportedMessage == <<"Unsupported platform">>

VARIABLES
    platform,                 \* process.platform
    activeTracerouteProcess,  \* 0 for null, else the run whose child it holds
    started,                  \* number of runTracerouteStreaming calls so far
    child,                    \* per run: the subprocess spawned by that call
    buffer,                   \* per run: the closure's line buffer
    hops,                     \* per run: the closure's hops array
    hopLog,                   \* per run: the onHop calls, in order
    doneLog,                  \* per run: the onComplete calls, in order
    cancelledAt,              \* per run: Len(hopLog) when it was cancelled, -1 if never
    superseded,               \* per run: a later call came before its onComplete
    split,                    \* per run: streams that delivered a chunk ending mid-line
    elapsed,                  \* per run: seconds its child has been running
    parse,                    \* a call of parseTracerouteLine: its line and its result
    cmd,                      \* the command line runTracerouteStreaming builds
    batch,                    \* the runTraceroute call being looked at
    detectedIps,              \* main.ts: the Set of IPs already reported
    mainWindow,               \* main.ts: "null", "open" or "destroyed"
    reported,                 \* per IP: 'server-ip-resolved' events since the last reset
    seen,                     \* the IPs of completed video requests since the last reset
    webRequests,              \* the requests of the session: details and whether completed
    requests                  \* the 'run-traceroute' requests handled so far

\* the variables of main.ts
netVars == <<detectedIps, mainWindow, reported, seen, webRequests>>

mainVars == <<netVars, requests>>

vars == <<platform, activeTracerouteProcess, started, child, buffer, hops,
          hopLog, doneLog, cancelledAt, superseded, split, elapsed, parse,
          cmd, batch, mainVars>>

NoChild == [st |-> "none", killed |-> FALSE, kills |-> 0, out |-> <<>>,
            err |-> <<>>, outAll |-> <<>>, errAll |-> <<>>, code |-> "none"]

\* the parts a line of input is written from, and the value of its number
NoInput == [hop |-> [txt |-> <<>>, val |-> 0], host |-> <<>>, second |-> <<>>,
            tail |-> <<>>]

\* no call of parseTracerouteLine is being looked at
IdleParse == [pc |-> "idle", in |-> NoInput, line |-> <<>>, out |-> <<>>]

\* the state of the orchestrator when the module is loaded
OrchInit ==
    /\ platform \in Platforms
    /\ activeTracerouteProcess = 0
    /\ started = 0
    /\ child = [r \in Runs |-> NoChild]
    /\ buffer = [r \in Runs |-> <<>>]
    /\ hops = [r \in Runs |-> <<>>]
    /\ hopLog = [r \in Runs |-> <<>>]
    /\ doneLog = [r \in Runs |-> <<>>]
    /\ cancelledAt = [r \in Runs |-> -1]
    /\ superseded = [r \in Runs |-> FALSE]
    /\ split = [r \in Runs |-> {}]
    /\ elapsed = [r \in Runs |-> 0]

\* no command line is being looked at
IdleCmd == [pc |-> "idle", target |-> <<>>, maxHops |-> 0, timeout |-> 0,
            out |-> <<>>]

\* no runTraceroute call is being looked at
IdleBatch == [pc |-> "idle", ok |-> TRUE, stdout |-> <<>>, stderr |-> <<>>,
              result |-> <<>>]

\* the server IPs of the completed requests
Ips == {"ip1", "ip2"}

\* main.ts when the app is ready: no window yet (createWindow comes after
\* setupNetworkMonitoring and setupIpcHandlers), nothing detected
MainInit ==
    /\ detectedIps = {}
    /\ mainWindow = "null"
    /\ reported = [i \in Ips |-> 0]
    /\ seen = {}
    /\ webRequests = <<>>
    /\ requests = <<>>

Init ==
    OrchInit /\ parse = IdleParse /\ cmd = IdleCmd /\ batch = IdleBatch /\ MainInit

\* child.kill(): a signal to a subprocess that is still running; nothing for
\* one that has exited or never started. kills counts the calls.
Kill(c) ==
    IF c.st = "running" THEN [c EXCEPT !.killed = TRUE, !.kills = @ + 1]
    ELSE [c EXCEPT !.kills = @ + 1]

\* stopActiveTraceroute() that clears the handle without kill()
KilledByStop_NoKill(ch, a) == ch

\* the children after stopActiveTraceroute() found handle a
KilledByStop(ch, a) == IF a # 0 THEN [ch EXCEPT ![a] = Kill(@)] ELSE ch

\* stopActiveTraceroute() that kills and keeps the handle
HandleAfterStop_Keep(a) == a

\* the handle after stopActiveTraceroute()
HandleAfterStop(a) == 0

\* the run is in flight: no completion was delivered and its child has not closed
NonTerminal(r) == child[r].st \in {"running", "failed"} /\ doneLog[r] = <<>>

\* bookkeeping of a cancellation of handle a
MarkCancelled(a) ==
    cancelledAt' = [r \in Runs |->
        IF r = a /\ NonTerminal(r) /\ cancelledAt[r] = -1
        THEN Len(hopLog[r]) ELSE cancelledAt[r]]

\* stopActiveTraceroute()
StopActiveTraceroute ==
    /\ child' = KilledByStop(child, activeTracerouteProcess)
    /\ activeTracerouteProcess' = HandleAfterStop(activeTracerouteProcess)
    /\ MarkCancelled(activeTracerouteProcess)
    /\ UNCHANGED <<batch, mainVars, cmd, elapsed, parse, platform, started, buffer, hops, hopLog, doneLog, superseded, split>>

\* the unsupported-platform result reported as a success
UnsupportedResult_Complete ==
    [hops |-> <<>>, complete |-> TRUE, error |-> UnsupportedMessage]

UnsupportedResult == [hops |-> <<>>, complete |-> FALSE, error |-> UnsupportedMessage]

\* spawn(command, args): a running child that will write o and e, or a child
\* that failed to start and will emit 'error'
Spawned(ok, o, e) ==
    [st |-> IF ok THEN "running" ELSE "failed", killed |-> FALSE, kills |-> 0,
     out |-> IF ok THEN o ELSE <<>>, err |-> IF ok THEN e ELSE <<>>,
     outAll |-> IF ok THEN o ELSE <<>>, errAll |-> IF ok THEN e ELSE <<>>,
     code |-> "none"]

\* the children once runTracerouteStreaming has stopped the active trace and
\* spawned the child of run r
ChildrenAfterStart(ch, a, r, c) == [KilledByStop(ch, a) EXCEPT ![r] = c]

\* runTracerouteStreaming(target, onHop, onComplete)
RunTracerouteStreaming(ok, o, e) ==
    LET r == started + 1 IN
    /\ started' = r
    /\ superseded' = [q \in Runs |->
          superseded[q] \/ (q <= started /\ doneLog[q] = <<>>)]
    /\ IF ~Supported(platform)
       THEN /\ doneLog' = [doneLog EXCEPT ![r] =
                              Append(@, [via |-> "sync", code |-> "none",
                                         after |-> Len(hopLog[r]),
                                         result |-> UnsupportedResult])]
            /\ UNCHANGED <<activeTracerouteProcess, child, buffer, hops, hopLog,
                           cancelledAt>>
       ELSE /\ child' = ChildrenAfterStart(child, activeTracerouteProcess, r,
                                           Spawned(ok, o, e))
            /\ MarkCancelled(activeTracerouteProcess)
            /\ activeTracerouteProcess' = r
            /\ buffer' = [buffer EXCEPT ![r] = <<>>]
            /\ hops' = [hops EXCEPT ![r] = <<>>]
            /\ UNCHANGED <<hopLog, doneLog>>
    /\ UNCHANGED <<batch, netVars>>
    /\ UNCHANGED <<cmd, elapsed, parse, platform, split>>

\* a loop over the lines that gives up at the first line without a hop
RECURSIVE ParseLines_StopAtNoise(_)
ParseLines_StopAtNoise(lines) ==
    IF lines = <<>> \/ parseTracerouteLine(Head(lines)) = Null THEN <<>>
    ELSE parseTracerouteLine(Head(lines)) \o ParseLines_StopAtNoise(Tail(lines))

\* the hops of a sequence of lines, in order
RECURSIVE ParseLines(_)
ParseLines(lines) ==
    IF lines = <<>> THEN <<>>
    ELSE parseTracerouteLine(Head(lines)) \o ParseLines(Tail(lines))

Front(s) == SubSeq(s, 1, Len(s) - 1)

Last(s) == s[Len(s)]

\* a stdout listener that parses each chunk on its own, as the stderr one
StdoutLines_NoBuffer(buf, rawChunk) ==
    [lines |-> SplitOn(rawChunk, "\n"), buffer |-> buf]

\* stdout 'data': buffer += rawChunk; lines = buffer.split('\n');
\* buffer = lines.pop() || ''
StdoutLines(buf, rawChunk) ==
    [lines  |-> Front(SplitOn(buf \o rawChunk, "\n")),
     buffer |-> Last(SplitOn(buf \o rawChunk, "\n"))]

\* stderr 'data': lines = output.split('\n'); the buffer is not used
StderrLines(buf, output) ==
    [lines |-> SplitOn(output, "\n"), buffer |-> buf]

\* listeners that all use the array and the callbacks of the first call
OwnerOf_First(r) == 1

\* the run whose hops array and onHop the listeners registered by call r
\* use: hops, buffer and the callbacks are locals of that call
OwnerOf(r) == r

\* a handler that pushes the hops it found without calling onHop
Logged_None(src, hs) == <<>>

\* onHop calls for the hops hs found by handler src
Logged(src, hs) == [k \in 1..Len(hs) |-> [src |-> src, hop |-> hs[k]]]

\* a chunk of n characters arrives on stdout of run r
StdoutData(r, n) ==
    LET c      == child[r]
        rawChunk == SubSeq(c.out, 1, n)
        sl     == StdoutLines(buffer[r], rawChunk)
        found  == ParseLines(sl.lines)
    IN
    /\ c.st = "running"
    /\ n \in 1..Len(c.out)
    /\ child' = [child EXCEPT ![r].out = Substring(c.out, n)]
    /\ buffer' = [buffer EXCEPT ![r] = sl.buffer]
    /\ hops' = [hops EXCEPT ![OwnerOf(r)] = @ \o found]
    /\ hopLog' = [hopLog EXCEPT ![OwnerOf(r)] = @ \o Logged("stdout", found)]
    /\ split' = [split EXCEPT ![r] =
                    IF rawChunk[n] # "\n" /\ n < Len(c.out)
                    THEN @ \cup {"stdout"} ELSE @]
    /\ UNCHANGED <<batch, mainVars, cmd, elapsed, parse, platform, activeTracerouteProcess, started, doneLog,
                   cancelledAt, superseded>>

\* a chunk of n characters arrives on stderr of run r
StderrData(r, n) ==
    LET c      == child[r]
        output == SubSeq(c.err, 1, n)
        sl     == StderrLines(buffer[r], output)
        found  == ParseLines(sl.lines)
    IN
    /\ c.st = "running"
    /\ n \in 1..Len(c.err)
    /\ child' = [child EXCEPT ![r].err = Substring(c.err, n)]
    /\ buffer' = [buffer EXCEPT ![r] = sl.buffer]
    /\ hops' = [hops EXCEPT ![OwnerOf(r)] = @ \o found]
    /\ hopLog' = [hopLog EXCEPT ![OwnerOf(r)] = @ \o Logged("stderr", found)]
    /\ split' = [split EXCEPT ![r] =
                    IF output[n] # "\n" /\ n < Len(c.err)
                    THEN @ \cup {"stderr"} ELSE @]
    /\ UNCHANGED <<batch, mainVars, cmd, elapsed, parse, platform, activeTracerouteProcess, started, doneLog,
                   cancelledAt, superseded>>

\* a 'close' listener that ignores what is left in the buffer
CloseFlush_Skip(buf) == <<>>

\* 'close': if (buffer.trim()) { hop = parseTracerouteLine(buffer); ... }
CloseFlush(buf) == IF Trim(buf) # <<>> THEN parseTracerouteLine(buf) ELSE <<>>

\* complete decided by the exit code alone
CloseComplete_ExitOnly(code, hs) == code = "0"

\* complete: code === 0 || hops.length > 0
CloseComplete(code, hs) == code = "0" \/ Len(hs) > 0

\* the result object the 'close' listener builds
CloseResult(code, hs) ==
    [hops |-> hs, complete |-> CloseComplete(code, hs), error |-> Null]

\* the result object the 'error' listener builds
ErrorResult(hs, message) == [hops |-> hs, complete |-> FALSE, error |-> message]

\* The events of a child (Node's child_process): 'data' on stdout and stderr
\* in chunks of any size, also for output that was already in the pipe when
\* the child was killed; 'close' once the child has ended and its streams
\* are read; 'error' when the child could not be started, followed by
\* 'close' for the same child.
\*
\* the statuses with which the child of run r can close now: after a kill the
\* signal ends it and unread output is lost; otherwise it exits once its
\* output has been read; after a failed spawn 'close' follows 'error'
CloseCodes(c) ==
    IF c.st = "errored" THEN {SpawnFailCode}
    ELSE IF c.st # "running" THEN {}
    ELSE IF c.killed THEN {SignalCode}
    ELSE IF c.out = <<>> /\ c.err = <<>> THEN ExitCodes
    ELSE {}

\* a 'close' listener that calls onComplete before it parses the buffer
FlushedBeforeComplete_None(found) == 0

\* the onHop calls the 'close' listener makes before it calls onComplete:
\* the buffer is parsed first
FlushedBeforeComplete(found) == Len(found)

\* a 'close' listener that resets the handle, whichever child closed
HandleAfterClose_Clear(a, r) == 0

\* the handle after the 'close' listener of run r: it is not touched
HandleAfterClose(a, r) == a

\* the 'close' listener of run r runs with status code
ChildClose(r, code) ==
    LET found == CloseFlush(buffer[r])
        all   == hops[r] \o found
    IN
    /\ code \in CloseCodes(child[r])
    /\ child' = [child EXCEPT ![r].st = "closed", ![r].code = code]
    /\ hops' = [hops EXCEPT ![r] = all]
    /\ hopLog' = [hopLog EXCEPT ![OwnerOf(r)] = @ \o Logged("close", found)]
    /\ doneLog' = [doneLog EXCEPT ![r] =
                      Append(@, [via |-> "close", code |-> code,
                                 after |-> Len(hopLog[r]) + FlushedBeforeComplete(found),
                                 result |-> CloseResult(code, all)])]
    /\ activeTracerouteProcess' = HandleAfterClose(activeTracerouteProcess, r)
    /\ UNCHANGED <<batch, mainVars, cmd, elapsed, parse, platform, started, buffer, cancelledAt,
                   superseded, split>>

\* the 'error' listener of run r runs: the child could not be started
ChildError(r) ==
    /\ child[r].st = "failed"
    /\ child' = [child EXCEPT ![r].st = "errored"]
    /\ doneLog' = [doneLog EXCEPT ![r] =
                      Append(@, [via |-> "error", code |-> "none",
                                 after |-> Len(hopLog[r]),
                                 result |-> ErrorResult(hops[r], SpawnErrorMessage)])]
    /\ UNCHANGED <<batch, mainVars, cmd, elapsed, parse, platform, activeTracerouteProcess, started, buffer, hops,
                   hopLog, cancelledAt, superseded, split>>

\* the characters the children spawned so far write
RECURSIVE WrittenUpTo(_)
WrittenUpTo(r) ==
    IF r = 0 THEN 0
    ELSE Len(child[r].outAll) + Len(child[r].errAll) + WrittenUpTo(r - 1)

Written == WrittenUpTo(MaxRuns)

\* a step of the orchestrator and its children, in behaviours of at most
\* maxRuns calls whose children write at most maxChars characters
Step(maxRuns, maxChars) ==
    \/ \E ok \in BOOLEAN, o \in OutTexts, e \in ErrTexts :
          /\ started < maxRuns
          /\ (~ok => o = <<>> /\ e = <<>>)
          /\ (~Supported(platform) => ok /\ o = <<>> /\ e = <<>>)
          /\ Written + Len(o) + Len(e) <= maxChars
          /\ RunTracerouteStreaming(ok, o, e)
          /\ UNCHANGED requests
    \/ StopActiveTraceroute
    \/ \E r \in Runs, n \in 1..maxChars : StdoutData(r, n)
    \/ \E r \in Runs, n \in 1..maxChars : StderrData(r, n)
    \/ \E r \in Runs, code \in ExitCodes \cup {SignalCode, SpawnFailCode} :
          ChildClose(r, code)
    \/ \E r \in Runs : ChildError(r)

Next == Step(MaxRuns, MaxChars)

NextStream == Step(1, MaxStreamChars)

NextNoise == Step(1, MaxNoiseChars)

\* one trace whose output mixes banner, blank and noise lines with hop lines
SpecNoise == Init /\ [][NextNoise]_vars

\* every interleaving of up to MaxRuns traces
Spec == Init /\ [][Next]_vars

\* one trace with longer output, in every chunking
SpecStream == Init /\ [][NextStream]_vars

\* options.maxHops and options.timeout when the caller gives none
DefaultMaxHops == 20

DefaultTimeout == 2

\* the seconds runTraceroute adds to maxHops * timeout for its exec timeout
TimeoutMargin == 10

\* the overall budget of a trace with the default options, in seconds
Budget == DefaultMaxHops * DefaultTimeout + TimeoutMargin

\* a second passes while the child of run r runs; runTracerouteStreaming
\* has set no timer, so nothing else happens
Tick(r) ==
    /\ child[r].st = "running"
    /\ elapsed[r] < TickSeconds
    /\ elapsed' = [elapsed EXCEPT ![r] = @ + 1]
    /\ UNCHANGED <<batch, mainVars>>
    /\ UNCHANGED <<platform, activeTracerouteProcess, started, child, buffer,
                   hops, hopLog, doneLog, cancelledAt, superseded, split,
                   parse, cmd>>

NextTimed ==
    \/ Step(1, MaxChars)
    \/ \E r \in Runs : Tick(r)

\* one trace and the time its child takes
SpecTimed == Init /\ [][NextTimed]_vars

\* one trace; the 'error' event of a child that could not be spawned is
\* emitted on the next tick of the event loop, so it is not postponed forever
SpecStreamFair ==
    Init /\ [][NextStream]_vars /\ WF_vars(\E r \in Runs : ChildError(r))

\* ------------------------------------------ calls of parseTracerouteLine

\* the start of a line and the integer it reads as (-1: not a hop number)
HopTokens ==
    { [txt |-> <<"3">>, val |-> 3],
      [txt |-> <<" ", "3">>, val |-> 3],
      [txt |-> <<"1", "0">>, val |-> 10],
      [txt |-> <<"0", "7">>, val |-> 7],
      [txt |-> <<"x">>, val |-> -1] }

Addr4 == <<"1", ".", "2", ".", "3", ".", "4">>

Addr6 == <<"a", ":", ":", "1">>

\* "a-b-c-d": four groups of hex digits, the address a:b:c:d
Dashed4 == <<"a", "-", "b", "-", "c", "-", "d">>

Colon4 == <<"a", ":", "b", ":", "c", ":", "d">>

\* "a-b-c": three groups only
Dashed3 == <<"a", "-", "b", "-", "c">>

\* "ae-1-2-3-bar": an interface name whose last group is not hexadecimal
DashedNonHex ==
    <<"a", "e", "-", "1", "-", "2", "-", "3", "-", "b", "a", "r">>

\* the part after the hop number: a name, an address, a name that encodes
\* an IPv6 address with dashes, or the "*" of a lost probe
HostTokens ==
    { <<"h">>, Addr4, Addr6, Dashed4, Dashed3, DashedNonHex, <<"*">> }

\* the next part: none, the address in parentheses, or a word
SecondTokens == { <<>>, <<"(">> \o Addr4 \o <<")">>, <<"b">> }

\* the end of the line: nothing, a latency, or the unresolved-hop marker
TailTokens ==
    { <<>>, <<"5", " ", "m", "s">>, <<"1", ".", "5", "0", " ", "m", "s">>,
      TimeoutMarker }

\* the latency column tracert prints first: "<1 ms" or "5 ms"
LatencyTokens == { <<"<", "1">>, <<"5">> }

\* a tracert hop line: hop number, latency column, then the address
WindowsInputs ==
    [hop : HopTokens, host : LatencyTokens, second : {<<"m", "s">>},
     tail : {Addr4}]

Inputs ==
    [hop : HopTokens, host : HostTokens, second : SecondTokens,
     tail : TailTokens] \cup WindowsInputs

\* a part with the blank that separates it from what precedes it
Sep(tok) == IF tok = <<>> THEN <<>> ELSE <<" ">> \o tok

\* the line written from the parts of an input
LineOf(in) == in.hop.txt \o Sep(in.host) \o Sep(in.second) \o Sep(in.tail)

\* parseTracerouteLine is about to be called with a line
InitParse ==
    /\ OrchInit
    /\ parse \in {[pc |-> "ready", in |-> in, line |-> LineOf(in), out |-> <<>>] :
                     in \in Inputs}
    /\ cmd = IdleCmd
    /\ batch = IdleBatch
    /\ MainInit

\* the call returns
ParseLine ==
    /\ parse.pc = "ready"
    /\ parse' = [parse EXCEPT !.pc = "done", !.out = parseTracerouteLine(parse.line)]
    /\ UNCHANGED <<batch, mainVars>>
    /\ UNCHANGED <<platform, activeTracerouteProcess, started, child, buffer,
                   hops, hopLog, doneLog, cancelledAt, superseded, split,
                   elapsed, cmd>>

NextParse == ParseLine

\* parseTracerouteLine on every line of Inputs
SpecParse == InitParse /\ [][NextParse]_vars

\* ------------------------------------------- the command line of a trace

\* target.includes(':')
IsIPv6(target) == Includes(target, <<":">>)

\* command and args as runTracerouteStreaming sets them: <<>> on a platform
\* without a tool, else the command, its fixed flags, the hop-limit and wait
\* options with their values, and the target
CommandFor(plat, target, maxHops, timeout) ==
    IF plat \in {"darwin", "linux"}
    THEN <<[command  |-> IF IsIPv6(target) THEN "traceroute6" ELSE "traceroute",
            flags    |-> <<"-n", "-q", "1", "-I">>,
            hopFlag  |-> "-m", hopLimit |-> maxHops,
            waitFlag |-> "-w", wait |-> timeout,
            target   |-> target]>>
    ELSE IF plat = "win32"
    THEN <<[command  |-> "tracert",
            flags    |-> <<"-d">>,
            hopFlag  |-> "-h", hopLimit |-> maxHops,
            waitFlag |-> "-w", wait |-> timeout * 1000,
            target   |-> target]>>
    ELSE <<>>

\* the targets, hop limits and waits runTracerouteStreaming is called with
Targets == {<<"h">>, Addr4, Addr6}

HopLimits == {1, 20, 30}

Waits == {1, 2, 5}

\* runTracerouteStreaming is about to build the command line of a trace
InitCommand ==
    /\ OrchInit
    /\ parse = IdleParse
    /\ cmd \in [pc : {"ready"}, target : Targets, maxHops : HopLimits,
                timeout : Waits, out : {<<>>}]
    /\ batch = IdleBatch
    /\ MainInit

\* command and args are set
BuildCommand ==
    /\ cmd.pc = "ready"
    /\ cmd' = [cmd EXCEPT !.pc = "done",
                          !.out = CommandFor(platform, cmd.target, cmd.maxHops,
                                             cmd.timeout)]
    /\ UNCHANGED <<batch, mainVars>>
    /\ UNCHANGED <<platform, activeTracerouteProcess, started, child, buffer,
                   hops, hopLog, doneLog, cancelledAt, superseded, split,
                   elapsed, parse>>

NextCommand == BuildCommand

\* the command line as a function of platform, target and options
SpecCommand == InitCommand /\ [][NextCommand]_vars

\* ------------------------------------------------------- the IPC channels

\* ipcMain.on('run-traceroute') with a host that yields a target: the
\* handler calls runTracerouteStreaming with callbacks that send to the
\* window (without a target it returns and nothing happens)
RunTracerouteRequest(ok, o, e) == RunTracerouteStreaming(ok, o, e)

\* the 'traceroute-hop' events the onHop callback of request r has sent to
\* the window, the window being open
HopEventsSent(r) ==
    [k \in 1..Len(hopLog[r]) |->
        [channel |-> "traceroute-hop", payload |-> hopLog[r][k].hop]]

\* the 'traceroute-result' events the onComplete callback of request r has
\* sent to the window
ResultEventsSent(r) ==
    [k \in 1..Len(doneLog[r]) |->
        [channel |-> "traceroute-result", payload |-> doneLog[r][k].result]]

\* the main process serving 'run-traceroute' requests: nothing but a new
\* request stops a trace
NextIpc ==
    \/ \E ok \in BOOLEAN, o \in OutTexts, e \in ErrTexts :
          /\ started < MaxRuns
          /\ (~ok => o = <<>> /\ e = <<>>)
          /\ (~Supported(platform) => ok /\ o = <<>> /\ e = <<>>)
          /\ Written + Len(o) + Len(e) <= MaxChars
          /\ RunTracerouteRequest(ok, o, e)
          /\ UNCHANGED requests
    \/ \E r \in Runs, n \in 1..MaxChars : StdoutData(r, n)
    \/ \E r \in Runs, n \in 1..MaxChars : StderrData(r, n)
    \/ \E r \in Runs, code \in ExitCodes \cup {SignalCode, SpawnFailCode} :
          ChildClose(r, code)
    \/ \E r \in Runs : ChildError(r)

SpecIpc == Init /\ [][NextIpc]_vars

\* ------------------------------------------------- the batch operation

\* lines of one output text
MaxBatchLines == 2

\* the hostname and ip the loop body of parseTracerouteOutput sets from the
\* parts of a line
OutputHostAndIp(parts) ==
    LET firstPart == parts[1]
        k == Ipv4ParenMatch(parts)
    IN  IF k # 0 THEN [hostname |-> parts[k], ip |-> ParenIp(parts[k + 1])]
        ELSE IF IPv4_PATTERN(firstPart) THEN [hostname |-> Null, ip |-> firstPart]
        ELSE IF IPv6_PATTERN(firstPart) THEN [hostname |-> Null, ip |-> firstPart]
        ELSE [hostname |-> firstPart, ip |-> DashedIp(firstPart)]

\* a loop body that skips the lines of a hop without response
PushLine_SkipTimeouts(hs, line) ==
    IF Includes(line, TimeoutMarker) THEN hs
    ELSE hs \o parseTracerouteLine(line)

\* one turn of the loop of parseTracerouteOutput: hops after the line
PushLine(hs, line) ==
    IF Trim(line) = <<>> \/ Includes(line, BannerV4) \/ Includes(line, BannerV6)
    THEN hs
    ELSE IF ~HopMatches(line) THEN hs
    ELSE IF Includes(line, TimeoutMarker)
         THEN Append(hs, [hop |-> HopNum(line), ip |-> Null, hostname |-> Null,
                          rtt |-> Null])
    ELSE LET restOfLine == Substring(line, HopMatchLen(line))
             parts == Parts(restOfLine)
             hostname == OutputHostAndIp(parts).hostname
             ip == OutputHostAndIp(parts).ip
         IN  IF Len(parts) < 2 THEN hs
             ELSE Append(hs, [hop |-> HopNum(line), ip |-> ip,
                              hostname |-> IF hostname # ip THEN hostname ELSE Null,
                              rtt |-> Rtt(restOfLine)])

RECURSIVE PushLines(_, _)
PushLines(hs, lines) ==
    IF lines = <<>> THEN hs
    ELSE PushLines(PushLine(hs, Head(lines)), Tail(lines))

\* parseTracerouteOutput(output): the hops of output.split('\n')
parseTracerouteOutput(output) == PushLines(<<>>, SplitOn(output, "\n"))

\* error.stdout || error.stderr || ''
ErrorOutput(stdout, stderr) == IF stdout # <<>> THEN stdout ELSE stderr

\* what the catch block of runTraceroute returns when hs are the hops of the
\* error's output (error: the result has an error message)
CatchResult(hs) ==
    IF hs # <<>> THEN [hops |-> hs, complete |-> FALSE, error |-> TRUE]
    ELSE [hops |-> <<>>, complete |-> FALSE, error |-> TRUE]

\* the TracerouteResult of runTraceroute on platform plat when execAsync
\* resolves (ok) with stdout, or rejects with stdout and stderr
BatchResult(plat, ok, stdout, stderr) ==
    IF ~Supported(plat) THEN [hops |-> <<>>, complete |-> FALSE, error |-> TRUE]
    ELSE IF ok
         THEN [hops |-> parseTracerouteOutput(stdout), complete |-> TRUE,
               error |-> FALSE]
    ELSE CatchResult(parseTracerouteOutput(ErrorOutput(stdout, stderr)))

\* lines the tool may print
BatchLines ==
    { <<>>,
      BannerV4 \o <<" ", "h">>,
      <<"x">>,
      <<"1", " ", "a", " ", "b">>,
      <<"2", " ">> \o TimeoutMarker,
      <<"3", " ", "h", " ", "(">> \o Addr4 \o <<")", " ", "5", " ", "m", "s">>,
      <<" ", "4", " ">> \o Addr6 \o <<" ", "1", ".", "5", "0", " ", "m", "s">>,
      <<"5", " ", "*">>,
      <<"6", " ">> \o Dashed4 \o <<" ", "7", "m", "s">> }

\* the texts of 1..n lines, each line but the last ended by a newline
RECURSIVE TextsOf(_)
TextsOf(n) ==
    IF n = 1 THEN BatchLines
    ELSE TextsOf(n - 1)
         \cup {t \o <<"\n">> \o l : t \in TextsOf(n - 1), l \in BatchLines}

BatchTexts == TextsOf(MaxBatchLines)

\* what the tool writes on stderr
BatchErrTexts == {<<>>, <<"1", " ", "a", " ", "b">>}

\* runTraceroute is about to be called; its command will end as ok tells,
\* having written stdout and stderr
InitBatch ==
    /\ OrchInit
    /\ parse = IdleParse
    /\ cmd = IdleCmd
    /\ MainInit
    /\ batch \in [pc : {"ready"}, ok : BOOLEAN, stdout : BatchTexts,
                  stderr : BatchErrTexts, result : {<<>>}]

\* the promise of runTraceroute settles
RunTraceroute ==
    /\ batch.pc = "ready"
    /\ batch' = [batch EXCEPT
                    !.pc = "done",
                    !.result = <<BatchResult(platform, batch.ok, batch.stdout,
                                             batch.stderr)>>]
    /\ UNCHANGED mainVars
    /\ UNCHANGED <<platform, activeTracerouteProcess, started, child, buffer,
                   hops, hopLog, doneLog, cancelledAt, superseded, split,
                   elapsed, parse, cmd>>

NextBatch == RunTraceroute

\* runTraceroute on every output of BatchTexts
SpecBatch == InitBatch /\ [][NextBatch]_vars

\* --------------------------------------------------- network monitoring

\* requests the session makes in one behaviour
MaxRequests == 3

\* isVideoRequest(url, resourceType); resourceType <<>> when undefined
isVideoRequest(url, resourceType) ==
    IF Includes(url, <<"l", "o", "c", "a", "l", "h", "o", "s", "t">>)
       \/ Includes(url, <<"1", "2", "7", ".", "0", ".", "0", ".", "1">>)
    THEN FALSE
    ELSE IF ~(\/ Includes(url, <<".", "m", "3", "u", "8">>)
              \/ Includes(url, <<".", "m", "p", "d">>)
              \/ Includes(url, <<".", "t", "s">>)
              \/ Includes(url, <<".", "m", "4", "s">>)
              \/ Includes(url, <<".", "m", "4", "v">>)
              \/ Includes(url, <<".", "m", "p", "4">>)
              \/ Includes(url, <<".", "c", "m", "f", "v">>)
              \/ Includes(url, <<".", "c", "m", "f", "a">>))
    THEN FALSE
    ELSE IF resourceType # <<>>
            /\ resourceType[1] \notin {"xhr", "fetch", "media", "other"}
    THEN FALSE
    ELSE TRUE

\* the details of the requests of the page: a segment and a manifest, a
\* segment of the dev server, a script, a segment loaded as a script, and a
\* segment whose details carry no ip
RequestDetails ==
    { [url |-> <<"a", ".", "t", "s">>, resourceType |-> <<"xhr">>, ip |-> <<"ip1">>],
      [url |-> <<"b", ".", "m", "p", "d">>, resourceType |-> <<>>, ip |-> <<"ip2">>],
      [url |-> <<"l", "o", "c", "a", "l", "h", "o", "s", "t", "/", "a", ".", "t", "s">>,
       resourceType |-> <<"xhr">>, ip |-> <<"ip1">>],
      [url |-> <<"a", ".", "j", "s">>, resourceType |-> <<"script">>, ip |-> <<"ip2">>],
      [url |-> <<"a", ".", "t", "s">>, resourceType |-> <<"script">>, ip |-> <<"ip1">>],
      [url |-> <<"a", ".", "t", "s">>, resourceType |-> <<"xhr">>, ip |-> <<>>] }

\* mainWindow && !mainWindow.isDestroyed()
WindowAlive == mainWindow = "open"

\* createWindow(): when the app is ready, and on 'activate' without a window
CreateWindow ==
    /\ mainWindow = "null"
    /\ mainWindow' = "open"
    /\ UNCHANGED <<detectedIps, reported, seen, webRequests, requests, batch>>
    /\ UNCHANGED <<platform, activeTracerouteProcess, started, child, buffer,
                   hops, hopLog, doneLog, cancelledAt, superseded, split,
                   elapsed, parse, cmd>>

\* the window is closed: it is destroyed
WindowDestroyed ==
    /\ mainWindow = "open"
    /\ mainWindow' = "destroyed"
    /\ UNCHANGED <<detectedIps, reported, seen, webRequests, requests, batch>>
    /\ UNCHANGED <<platform, activeTracerouteProcess, started, child, buffer,
                   hops, hopLog, doneLog, cancelledAt, superseded, split,
                   elapsed, parse, cmd>>

\* mainWindow.on('closed'): the reference is dropped
WindowClosed ==
    /\ mainWindow = "destroyed"
    /\ mainWindow' = "null"
    /\ UNCHANGED <<detectedIps, reported, seen, webRequests, requests, batch>>
    /\ UNCHANGED <<platform, activeTracerouteProcess, started, child, buffer,
                   hops, hopLog, doneLog, cancelledAt, superseded, split,
                   elapsed, parse, cmd>>

\* the page of the window makes a request
StartRequest(d) ==
    /\ mainWindow = "open"
    /\ Len(webRequests) < MaxRequests
    /\ webRequests' = Append(webRequests, [details |-> d, completed |-> FALSE])
    /\ UNCHANGED <<detectedIps, mainWindow, reported, seen, requests, batch>>
    /\ UNCHANGED <<platform, activeTracerouteProcess, started, child, buffer,
                   hops, hopLog, doneLog, cancelledAt, superseded, split,
                   elapsed, parse, cmd>>

\* webRequest.onCompleted for request k
OnCompleted(k) ==
    LET details == webRequests[k].details
        video   == isVideoRequest(details.url, details.resourceType)
                   /\ details.ip # <<>>
        ip      == details.ip[1]
        first   == video /\ ip \notin detectedIps
    IN  /\ ~webRequests[k].completed
        /\ webRequests' = [webRequests EXCEPT ![k].completed = TRUE]
        /\ detectedIps' = IF first THEN detectedIps \cup {ip} ELSE detectedIps
        /\ reported' = IF first /\ WindowAlive
                       THEN [reported EXCEPT ![ip] = @ + 1] ELSE reported
        /\ seen' = IF video THEN seen \cup {ip} ELSE seen
        /\ UNCHANGED <<mainWindow, requests, batch>>
        /\ UNCHANGED <<platform, activeTracerouteProcess, started, child, buffer,
                       hops, hopLog, doneLog, cancelledAt, superseded, split,
                       elapsed, parse, cmd>>

\* ipcMain.on('network:reset-cache'), sent by the page of the window
ResetCache ==
    /\ mainWindow = "open"
    /\ detectedIps' = {}
    /\ reported' = [i \in Ips |-> 0]
    /\ seen' = {}
    /\ UNCHANGED <<mainWindow, webRequests, requests, batch>>
    /\ UNCHANGED <<platform, activeTracerouteProcess, started, child, buffer,
                   hops, hopLog, doneLog, cancelledAt, superseded, split,
                   elapsed, parse, cmd>>

NextNet ==
    \/ CreateWindow
    \/ WindowDestroyed
    \/ WindowClosed
    \/ \E d \in RequestDetails : StartRequest(d)
    \/ \E k \in 1..Len(webRequests) : OnCompleted(k)
    \/ ResetCache

\* the requests of the page, the window and the resets of the cache
SpecNet == Init /\ [][NextNet]_vars

\* ------------------------------------------- 'run-traceroute' requests

\* 'run-traceroute' requests in one behaviour
MaxIpcRequests == 2

SchemeChars == {"a", "b", "e", "f", "h", "i", "l", "p", "s", "t", "u", "x"}

\* the schemes whose URLs must have a host
HostSchemes == { <<"h", "t", "t", "p">>, <<"h", "t", "t", "p", "s">> }

\* code points a host may not contain
ForbiddenHostChars == {" ", "<", ">", "#", "%", "/", "?", "@", "[", "]", "\\", "^", "|"}

\* ASCII lower case, on the letters of the hosts below
ToLower(c) == CASE c = "A" -> "a" [] c = "B" -> "b" [] OTHER -> c

\* index of the last "@" of s, 0 without one
LastAt(s) ==
    LET hits == {k \in 1..Len(s) : s[k] = "@"}
    IN  IF hits = {} THEN 0 ELSE CHOOSE k \in hits : \A j \in hits : j <= k

\* the host of an authority without userinfo: Null when it is not valid,
\* else <<host>>; an IPv6 literal is serialised in its brackets
HostOf(hostport) ==
    IF hostport # <<>> /\ hostport[1] = "["
    THEN LET n == SpanLen(hostport, 2, HexDigits \cup {":"})
         IN  IF n >= 2 /\ n + 2 <= Len(hostport) /\ hostport[n + 2] = "]"
                /\ AllIn(Substring(hostport, n + 3), Digits \cup {":"})
             THEN <<SubSeq(hostport, 1, n + 2)>>
             ELSE Null
    ELSE LET n    == SpanLen(hostport, 1,
                             {x \in {hostport[k] : k \in 1..Len(hostport)} : x # ":"})
             name == SubSeq(hostport, 1, n)
         IN  IF \E k \in 1..n : name[k] \in ForbiddenHostChars THEN Null
             ELSE IF ~AllIn(Substring(hostport, n + 1), Digits \cup {":"}) THEN Null
             ELSE <<[k \in 1..n |-> ToLower(name[k])]>>

\* new URL(url).hostname for a url without base: Null when the constructor
\* throws, else <<hostname>>
UrlHostname(url) ==
    LET n      == SpanLen(url, 1, SchemeChars)
        scheme == SubSeq(url, 1, n)
        rest   == Substring(url, n + 1)
        slashes == SpanLen(rest, 1, {"/"})
        \* "http:" skips every slash, other schemes take "//"
        after  == Substring(rest, IF scheme \in HostSchemes THEN slashes ELSE 2)
        m      == SpanLen(after, 1,
                          {x \in {after[k] : k \in 1..Len(after)} :
                               x \notin {"/", "?", "#"}})
        authority == SubSeq(after, 1, m)
        hostport  == Substring(authority, LastAt(authority))
    IN  IF n = 0 \/ n + 1 > Len(url) \/ url[n + 1] # ":" THEN Null
        ELSE IF slashes < 2 THEN <<<<>>>>
        ELSE IF HostOf(hostport) = Null THEN Null
        ELSE IF HostOf(hostport) = <<<<>>>> /\ scheme \in HostSchemes THEN Null
        ELSE HostOf(hostport)

\* extractHostnameFromUrl(url): Null or <<hostname>>
extractHostnameFromUrl(url) == UrlHostname(url)

\* the target the 'run-traceroute' handler computes from host: Null when
\* it returns without a trace (!target), else <<target>>
TargetOf(host) ==
    LET target == IF Includes(host, <<":", "/", "/">>)
                  THEN extractHostnameFromUrl(host) ELSE <<host>>
    IN  IF target = Null \/ target = <<<<>>>> THEN Null ELSE target

\* the hosts of the requests, each with the bare hostname it stands for
\* (Null: none)
HostInputs ==
    { [txt |-> <<"a", ".", "b">>, hostname |-> <<<<"a", ".", "b">>>>],
      [txt |-> <<>>, hostname |-> Null],
      [txt |-> <<"h", "t", "t", "p", ":", "/", "/", "a", ".", "b", "/", "x">>, hostname |-> <<<<"a", ".", "b">>>>],
      [txt |-> <<"h", "t", "t", "p", ":", "/", "/", "a", ".", "b", ":", "8", "0">>, hostname |-> <<<<"a", ".", "b">>>>],
      [txt |-> <<"h", "t", "t", "p", ":", "/", "/", "u", "@", "A", ".", "b", "/">>, hostname |-> <<<<"a", ".", "b">>>>],
      [txt |-> <<"h", "t", "t", "p", ":", "/", "/", "[", ":", ":", "1", "]", "/">>, hostname |-> <<<<":", ":", "1">>>>],
      [txt |-> <<":", "/", "/", "a", ".", "b">>, hostname |-> Null],
      [txt |-> <<"h", "t", "t", "p", ":", "/", "/">>, hostname |-> Null],
      [txt |-> <<"h", "t", "t", "p", ":", "/", "/", "a", " ", "b">>, hostname |-> Null],
      [txt |-> <<"f", "i", "l", "e", ":", "/", "/", "/", "x">>, hostname |-> Null] }

\* ipcMain.on('run-traceroute') with host h, whose child, when one is
\* spawned, will write o and e
RunTracerouteIpc(h, ok, o, e) ==
    /\ Len(requests) < MaxIpcRequests
    /\ IF TargetOf(h.txt) = Null
       THEN /\ requests' = Append(requests, [host |-> h, target |-> Null, run |-> 0])
            /\ UNCHANGED <<batch, netVars>>
            /\ UNCHANGED <<platform, activeTracerouteProcess, started, child,
                           buffer, hops, hopLog, doneLog, cancelledAt,
                           superseded, split, elapsed, parse, cmd>>
       ELSE /\ started < 1
            /\ (~ok => o = <<>> /\ e = <<>>)
            /\ (~Supported(platform) => ok /\ o = <<>> /\ e = <<>>)
            /\ Written + Len(o) + Len(e) <= MaxChars
            /\ RunTracerouteStreaming(ok, o, e)
            /\ requests' = Append(requests, [host |-> h, target |-> TargetOf(h.txt),
                                             run |-> started + 1])

NextRequest ==
    \/ \E h \in HostInputs, ok \in BOOLEAN, o \in OutTexts, e \in ErrTexts :
          RunTracerouteIpc(h, ok, o, e)
    \/ \E r \in Runs, n \in 1..MaxChars : StdoutData(r, n)
    \/ \E r \in Runs, n \in 1..MaxChars : StderrData(r, n)
    \/ \E r \in Runs, code \in ExitCodes \cup {SignalCode, SpawnFailCode} :
          ChildClose(r, code)
    \/ \E r \in Runs : ChildError(r)

\* the main process serving 'run-traceroute' requests with any host
SpecRequest == Init /\ [][NextRequest]_vars

\* ------------------------------------------------------------- claims

\* the subprocess of run r runs and no kill was sent to it
Live(r) == child[r].st = "running" /\ ~child[r].killed

Hops(log) == [k \in 1..Len(log) |-> log[k].hop]

FromStdout(e) == e.src \in {"stdout", "close"}

FromStderr(e) == e.src = "stderr"

\* the hops run r found in the output of its primary stream
StdoutHops(r) == Hops(SelectSeq(hopLog[r], FromStdout))

StderrHops(r) == Hops(SelectSeq(hopLog[r], FromStderr))

\* what the listeners of run r have received on each stream so far
DeliveredOut(r) ==
    SubSeq(child[r].outAll, 1, Len(child[r].outAll) - Len(child[r].out))

DeliveredErr(r) ==
    SubSeq(child[r].errAll, 1, Len(child[r].errAll) - Len(child[r].err))

\* the child of run r was started and has closed
Exited(r) == child[r].st = "closed" /\ child[r].code # SpawnFailCode

\* the child of run r could not be started and its 'error' was emitted
SpawnFailed(r) ==
    \/ child[r].st = "errored"
    \/ child[r].st = "closed" /\ child[r].code = SpawnFailCode

\* C1: at most one subprocess spawned by the subsystem is running without
\* having been sent a kill, in every reachable state.
C1_AtMostOneLive == Cardinality({r \in Runs : Live(r)}) <= 1

\* a second trace runs while the first, killed, has not closed yet
C1_Witness ==
    /\ child[1].st = "running" /\ child[1].killed
    /\ Live(2) /\ activeTracerouteProcess = 2

\* C2: a run that was superseded by a later runTracerouteStreaming call
\* before its onComplete fired never gets an onComplete call.
C2_SupersededNeverCompletes ==
    \A r \in Runs : superseded[r] => doneLog[r] = <<>>

\* C3: after stopActiveTraceroute() cancelled a run in a non-terminal state,
\* no onHop and no onComplete of that run fires.
C3_NoCallbackAfterCancel ==
    \A r \in Runs :
        cancelledAt[r] # -1 =>
            Len(hopLog[r]) = cancelledAt[r] /\ doneLog[r] = <<>>

\* C4: onComplete is called at most once for every invocation of
\* runTracerouteStreaming.
C4_CompleteAtMostOnce == \A r \in Runs : Len(doneLog[r]) <= 1

\* C5: a result delivered when the subprocess exits has complete = true if
\* the exit code is 0, and also if it is not 0 but the run parsed a hop.
C5_PartialSuccessComplete ==
    \A r \in Runs : \A k \in 1..Len(doneLog[r]) :
        LET d == doneLog[r][k] IN
        d.via = "close" =>
            /\ d.code = "0" => d.result.complete
            /\ d.code # "0" /\ hopLog[r] # <<>> => d.result.complete

\* a run whose child exited with code 1 after a hop was parsed
C5_Witness ==
    \E r \in Runs :
        /\ Exited(r) /\ child[r].code = "1" /\ Len(hopLog[r]) >= 1
        /\ Len(doneLog[r]) = 1 /\ doneLog[r][1].result.complete

\* C6: a result delivered after an exit with a non-zero code and zero hops has
\* complete = false and carries an error text.
C6_TotalFailureHasError ==
    \A r \in Runs : \A k \in 1..Len(doneLog[r]) :
        LET d == doneLog[r][k] IN
        d.via = "close" /\ d.code \in ExitCodes \ {"0"} /\ d.result.hops = <<>> =>
            ~d.result.complete /\ d.result.error # Null

\* C7: after a failed spawn the run has exactly one completion: no hops,
\* complete = false and the error message of the spawn.
C7_SpawnErrorOnlyCompletion ==
    \A r \in Runs :
        SpawnFailed(r) =>
            /\ Len(doneLog[r]) = 1
            /\ doneLog[r][1].result =
                  [hops |-> <<>>, complete |-> FALSE, error |-> SpawnErrorMessage]

\* C8: on a platform other than darwin, linux and win32 every call has
\* completed when it returns, with zero hops, complete = false and an error;
\* no subprocess exists, onHop was never called, the handle is null.
C8_UnsupportedSync ==
    platform \notin {"darwin", "linux", "win32"} =>
        /\ activeTracerouteProcess = 0
        /\ \A r \in Runs :
              /\ child[r].st = "none"
              /\ hopLog[r] = <<>>
              /\ r > started => doneLog[r] = <<>>
              /\ r <= started =>
                    /\ Len(doneLog[r]) = 1
                    /\ doneLog[r][1].result.hops = <<>>
                    /\ ~doneLog[r][1].result.complete
                    /\ doneLog[r][1].result.error # Null

\* two calls were made on an unsupported platform
C8_Witness ==
    /\ platform = "freebsd" /\ started = 2
    /\ doneLog[2] # <<>> /\ doneLog[2][1].via = "sync"

\* C9: whatever the chunks of stdout were, the hops found on stdout are the
\* hops of the lines of the text received, one per hop line and in line
\* order; the unterminated last line counts once the child has closed.
C9_ChunkingIndependent ==
    \A r \in Runs :
        LET segs == SplitOn(DeliveredOut(r), "\n") IN
        /\ child[r].st = "running" =>
              /\ StdoutHops(r) = ParseLines(Front(segs))
              /\ buffer[r] = Last(segs)
        /\ Exited(r) => StdoutHops(r) = ParseLines(segs)

\* a closed run with two hops on stdout, a chunk of which ended inside a line
C9_Witness ==
    \E r \in Runs :
        /\ Exited(r) /\ "stdout" \in split[r]
        /\ child[r].out = <<>> /\ Len(StdoutHops(r)) = 2

\* C10: whatever the chunks of stderr were, the hops found on stderr are the
\* hops of the lines of the text received on stderr.
C10_StderrBuffered ==
    \A r \in Runs :
        Exited(r) =>
            StderrHops(r) = ParseLines(SplitOn(DeliveredErr(r), "\n"))

\* C11: within one run onComplete fires after the last onHop: every onHop
\* call of a run was made before each onComplete call of that run, so no
\* onHop follows an onComplete.
C11_CompleteAfterLastHop ==
    \A r \in Runs : \A k \in 1..Len(doneLog[r]) :
        doneLog[r][k].after = Len(hopLog[r])

\* a run completed at close, after the hop of the unterminated last line was
\* delivered by the 'close' listener itself
C11_Witness ==
    \E r \in Runs :
        /\ Exited(r) /\ Len(doneLog[r]) = 1
        /\ Len(hopLog[r]) >= 1
        /\ hopLog[r][Len(hopLog[r])].src = "close"

\* C12: the hop numbers delivered via onHop during one trace never decrease
\* in delivery order, whatever the chunks of stdout and stderr were.
C12_HopNumbersMonotone ==
    \A r \in Runs : \A i, j \in 1..Len(hopLog[r]) :
        i < j => hopLog[r][i].hop.hop <= hopLog[r][j].hop.hop

\* C13: a child that has been running for longer than the overall budget
\* (maxHops x timeout plus the margin) has been sent a kill.
C13_KilledAfterBudget ==
    \A r \in Runs :
        child[r].st = "running" /\ elapsed[r] > Budget => child[r].killed

\* C14: stopActiveTraceroute() is idempotent and safe without an active
\* trace: with an empty handle it changes nothing; after it the handle is
\* empty, so that a second call in a row kills nothing and changes nothing;
\* no child is ever sent more than one kill.
C14_StopIdempotent ==
    [][StopActiveTraceroute =>
          /\ activeTracerouteProcess = 0 => UNCHANGED vars
          /\ activeTracerouteProcess' = 0
          /\ KilledByStop(child', activeTracerouteProcess') = child'
          /\ HandleAfterStop(activeTracerouteProcess') = activeTracerouteProcess'
          /\ \A r \in Runs : child'[r].kills <= 1]_vars

\* the handle is empty after a stop that killed the running child it held
C14_Witness ==
    /\ activeTracerouteProcess = 0
    /\ \E r \in Runs :
          child[r].st = "running" /\ child[r].killed /\ child[r].kills = 1

\* C15: the hops of the result passed to onComplete are the hops passed to
\* onHop during that run, in the same order; at every moment the hops
\* collected so far are the hops already passed to onHop.
C15_ResultHopsAreDelivered ==
    \A r \in Runs :
        /\ hops[r] = Hops(hopLog[r])
        /\ \A k \in 1..Len(doneLog[r]) :
              doneLog[r][k].result.hops = Hops(hopLog[r])

\* a completed run whose hops came from stdout and from stderr
C15_Witness ==
    \E r \in Runs :
        /\ Exited(r) /\ Len(doneLog[r]) = 1
        /\ Len(doneLog[r][1].result.hops) >= 2
        /\ StdoutHops(r) # <<>> /\ StderrHops(r) # <<>>

\* a listener of some child ran in this step: output was consumed, a hop or
\* a completion was delivered, or a child changed its status, and no call
\* of runTracerouteStreaming was made
ListenerStep ==
    /\ started' = started
    /\ \/ hopLog' # hopLog
       \/ doneLog' # doneLog
       \/ \E r \in Runs :
             \/ child'[r].st # child[r].st
             \/ child'[r].out # child[r].out
             \/ child'[r].err # child[r].err

\* C16: when runTracerouteStreaming returns on darwin, linux or win32 the
\* handle refers to the child that call spawned and every older child has
\* been sent a kill; no listener of any run changes or clears the handle.
C16_LastWriterWins ==
    [][/\ (started' = started + 1 /\ platform \in {"darwin", "linux", "win32"}) =>
             /\ activeTracerouteProcess' = started'
             /\ child'[started'].st \in {"running", "failed"}
             /\ \A r \in 1..started : ~Live(r)'
       /\ ListenerStep => activeTracerouteProcess' = activeTracerouteProcess]_vars

\* the second call owns the handle after the killed child of the first call
\* has closed and completed
C16_Witness ==
    /\ started = 2 /\ activeTracerouteProcess = 2 /\ Live(2)
    /\ superseded[1] /\ child[1].st = "closed" /\ doneLog[1] # <<>>

\* the hops of the unterminated last line of what run r received on stdout
LastLineHops(r) == ParseLines(<<Last(SplitOn(DeliveredOut(r), "\n"))>>)

\* hs ends with tl
EndsWith(hs, tl) ==
    /\ Len(tl) <= Len(hs)
    /\ SubSeq(hs, Len(hs) - Len(tl) + 1, Len(hs)) = tl

FromClose(e) == e.src = "close"

\* C17: for a run that was not cancelled, once the child has exited
\* onComplete has been called by the 'close' listener, and the content left
\* in the line buffer was parsed first: its hop is delivered and closes the
\* result; a child that could not be spawned leads to an onComplete call.
C17_ExitCompletesAfterFlush ==
    /\ [](\A r \in Runs :
            Exited(r) /\ cancelledAt[r] = -1 /\ ~superseded[r] =>
                /\ \E k \in 1..Len(doneLog[r]) :
                      /\ doneLog[r][k].via = "close"
                      /\ EndsWith(doneLog[r][k].result.hops, LastLineHops(r))
                /\ Hops(SelectSeq(hopLog[r], FromClose)) = LastLineHops(r))
    /\ \A r \in Runs :
          (child[r].st = "failed" /\ cancelledAt[r] = -1) ~> (doneLog[r] # <<>>)

\* a child exited with code 0 leaving an unterminated hop line in the
\* buffer; the run completed with that hop as the last of two
C17_Witness ==
    \E r \in Runs :
        /\ Exited(r) /\ child[r].code = "0" /\ cancelledAt[r] = -1
        /\ Len(doneLog[r]) = 1 /\ Len(doneLog[r][1].result.hops) = 2
        /\ LastLineHops(r) # <<>>
        /\ EndsWith(doneLog[r][1].result.hops, LastLineHops(r))

\* parseTracerouteLine has returned
Parsed == parse.pc = "done"

\* the line has the form  <hop> <name> (<dotted-decimal IPv4>) ...
ParenForm ==
    /\ parse.in.hop.val >= 0
    /\ parse.in.second = <<"(">> \o Addr4 \o <<")">>

\* C18 as stated: for every line of the form '<hop> <hostname> (<IPv4>) ...'
\* the parser returns a Hop whose hostname and address are both non-null
\* and different from each other.
C18_HostnameAndAddressDistinct ==
    Parsed /\ ParenForm =>
        /\ parse.out # Null
        /\ parse.out[1].hostname # Null
        /\ parse.out[1].ip # Null
        /\ parse.out[1].hostname # parse.out[1].ip

\* C18 amended: for such a line without the '* * *' marker the parser returns
\* a Hop whose address is the IPv4 in the parentheses; its hostname is the
\* name, non-null and different from the address, when the name is not that
\* same IPv4 text, and null when it is.
C18_ParenAddressAndName ==
    Parsed /\ ParenForm /\ parse.in.tail # TimeoutMarker =>
        /\ parse.out # Null
        /\ parse.out[1].ip = Addr4
        /\ parse.in.host # Addr4 =>
              /\ parse.out[1].hostname = parse.in.host
              /\ parse.out[1].hostname # parse.out[1].ip
        /\ parse.in.host = Addr4 => parse.out[1].hostname = Null

\* the line "3 1.2.3.4 (1.2.3.4) 5 ms" was parsed: address set, hostname null
C18_Witness ==
    /\ Parsed /\ ParenForm
    /\ parse.in.host = Addr4 /\ parse.in.tail = <<"5", " ", "m", "s">>
    /\ parse.out # Null
    /\ parse.out[1].ip = Addr4 /\ parse.out[1].hostname = Null

\* the line carries only a bare IPv4 or IPv6 address, or repeats the
\* address in parentheses after it
BareAddress ==
    /\ parse.in.host \in {Addr4, Addr6}
    /\ parse.in.tail # TimeoutMarker
    /\ parse.in.second = <<"(">> \o Addr4 \o <<")">> => parse.in.host = Addr4

\* C19: in every Hop the parser returns hostname is null or different from
\* address; for a line with only a bare address, or with the address
\* repeated as the name, the address is in address and hostname is null.
C19_HostnameNeverAddress ==
    Parsed /\ parse.out # Null =>
        /\ parse.out[1].hostname = Null \/ parse.out[1].hostname # parse.out[1].ip
        /\ BareAddress =>
              /\ parse.out[1].ip = parse.in.host
              /\ parse.out[1].hostname = Null

\* the line "10 a::1 5 ms" was parsed: the IPv6 address is the address
C19_Witness ==
    /\ Parsed /\ BareAddress
    /\ parse.in.host = Addr6 /\ parse.in.second = <<>>
    /\ parse.out # Null
    /\ parse.out[1].ip = Addr6 /\ parse.out[1].hostname = Null

\* C20: for every line that starts with a hop number and contains '* * *'
\* the parser returns a Hop with null address, null hostname and null
\* latency whose hop number is the integer at the start of the line.
C20_TimeoutLineNullFields ==
    Parsed /\ parse.in.hop.val >= 0 /\ parse.in.tail = TimeoutMarker =>
        parse.out = <<[hop |-> parse.in.hop.val, ip |-> Null,
                       hostname |-> Null, rtt |-> Null]>>

\* the line "10 * * * *" was parsed as hop 10 without address
C20_Witness ==
    /\ Parsed /\ parse.in.hop.val = 10
    /\ parse.in.host = <<"*">> /\ parse.in.second = <<>>
    /\ parse.in.tail = TimeoutMarker
    /\ parse.out # Null /\ parse.out[1].hop = 10 /\ parse.out[1].ip = Null

\* the first part is a name and no "(ipv4)" follows it
NameOnly ==
    /\ parse.in.hop.val >= 0
    /\ parse.in.second # <<"(">> \o Addr4 \o <<")">>
    /\ parse.in.tail # TimeoutMarker

\* C21: a hostname that starts with four or more hyphen-separated groups of
\* one to four hex digits gets the address with the hyphens replaced by
\* colons and stays the hostname; a hostname with fewer groups or with a
\* non-hex group in its hyphen-separated label gets no address.
C21_DashedIPv6Decoding ==
    Parsed /\ NameOnly /\ parse.out # Null =>
        /\ parse.in.host = Dashed4 =>
              parse.out[1].ip = Colon4 /\ parse.out[1].hostname = Dashed4
        /\ parse.in.host \in {Dashed3, DashedNonHex} => parse.out[1].ip = Null

\* the line has a hop number and a name or an address, and no latency
NoLatency ==
    /\ parse.in.hop.val >= 0
    /\ parse.in.host # <<"*">>
    /\ parse.in.tail = <<>>

\* C22: a line with a hop number and an address or hostname but without a
\* '<number> ms' latency yields a Hop for that hop number with latency
\* null; it is not discarded.
C22_NoLatencyStillHop ==
    Parsed /\ NoLatency =>
        /\ parse.out # Null
        /\ parse.out[1].hop = parse.in.hop.val
        /\ parse.out[1].rtt = Null

\* the lines of the sample output that are not hop lines: a blank line, the
\* banner and a line that does not begin with a number
NonHopLines == {<<>>, <<"x">>, Front(LineBanner)}

IsHopLine(line) == line \notin NonHopLines

\* one Hop for each hop line of lines, in order
ExpectedHops(lines) ==
    [k \in 1..Len(SelectSeq(lines, IsHopLine)) |->
        parseTracerouteLine(SelectSeq(lines, IsHopLine)[k])[1]]

\* C23: a blank line, a banner line and a line without a hop number yield
\* no hop and are not fatal: the hops delivered from stdout are those of the
\* hop lines received, also of the lines that follow such a line, and after
\* the exit the run has its onComplete from the 'close' listener.
C23_NonHopLinesSkipped ==
    \A r \in Runs :
        LET segs == SplitOn(DeliveredOut(r), "\n") IN
        /\ \A k \in 1..(Len(segs) - 1) :
              segs[k] \in NonHopLines => parseTracerouteLine(segs[k]) = Null
        /\ child[r].st = "running" => StdoutHops(r) = ExpectedHops(Front(segs))
        /\ Exited(r) /\ child[r].out = <<>> =>
              /\ StdoutHops(r) = ExpectedHops(segs)
              /\ \E k \in 1..Len(doneLog[r]) :
                    /\ doneLog[r][k].via = "close"
                    /\ doneLog[r][k].result.error = Null
                    /\ doneLog[r][k].result.hops = Hops(hopLog[r])

\* a run received the banner, a blank line, a line of noise and the line of
\* hop 1, and completed with that hop
C23_Witness ==
    \E r \in Runs :
        /\ Exited(r) /\ child[r].code = "0"
        /\ DeliveredOut(r) = NoiseThenHop
        /\ Len(StdoutHops(r)) = 1 /\ StdoutHops(r)[1].hop = 1
        /\ Len(doneLog[r]) = 1 /\ doneLog[r][1].result.complete

\* C24: every Hop passed to onHop or contained in a result has a hop number
\* of at least 1.
C24_HopNumberPositive ==
    \A r \in Runs :
        /\ \A i \in 1..Len(hopLog[r]) : hopLog[r][i].hop.hop >= 1
        /\ \A k \in 1..Len(doneLog[r]) :
              \A i \in 1..Len(doneLog[r][k].result.hops) :
                  doneLog[r][k].result.hops[i].hop >= 1

\* the target is an IPv6 literal: of the targets, the one with a colon
HasColon(target) == target = Addr6

\* the tool and the fixed flags of a command line
Invocation(c) == <<c.command, c.flags>>

\* C25: on darwin, linux and win32 the command line depends on platform and
\* target only: targets with a colon get one invocation and targets without
\* a colon another, different one; maxHops and the timeout are the values of
\* the tool's hop-limit and wait options, the wait in milliseconds on win32.
C25_CommandFromPlatformAndTarget ==
    cmd.pc = "done" /\ platform \in {"darwin", "linux", "win32"} =>
        /\ cmd.out # <<>>
        /\ cmd.out[1].target = cmd.target
        /\ cmd.out[1].hopLimit = cmd.maxHops
        /\ cmd.out[1].wait =
              IF platform = "win32" THEN cmd.timeout * 1000 ELSE cmd.timeout
        /\ \A t \in Targets :
              (HasColon(t) = HasColon(cmd.target)) <=>
                  (Invocation(CommandFor(platform, t, cmd.maxHops, cmd.timeout)[1])
                      = Invocation(cmd.out[1]))

\* the hops of the unterminated last line of what run r received on stderr
ErrLastLineHops(r) == ParseLines(<<Last(SplitOn(DeliveredErr(r), "\n"))>>)

\* how many times hop h was passed to onHop in run r
Deliveries(r, h) == Cardinality({i \in 1..Len(hopLog[r]) : hopLog[r][i].hop = h})

\* C26: when the child has exited and everything it wrote was received, an
\* unterminated last line that is a hop line, on stdout or on stderr, has
\* been passed to onHop exactly once, before onComplete, and is in the
\* result; the one of stdout is the last hop of the result.
C26_FragmentFlushedOnce ==
    \A r \in Runs :
        Exited(r) /\ child[r].out = <<>> /\ child[r].err = <<>> =>
            /\ LastLineHops(r) # <<>> =>
                  /\ Deliveries(r, LastLineHops(r)[1]) = 1
                  /\ \A k \in 1..Len(doneLog[r]) :
                        /\ doneLog[r][k].after = Len(hopLog[r])
                        /\ EndsWith(doneLog[r][k].result.hops, LastLineHops(r))
            /\ ErrLastLineHops(r) # <<>> =>
                  /\ Deliveries(r, ErrLastLineHops(r)[1]) = 1
                  /\ \A k \in 1..Len(doneLog[r]) :
                        /\ doneLog[r][k].after = Len(hopLog[r])
                        /\ \E i \in 1..Len(doneLog[r][k].result.hops) :
                              doneLog[r][k].result.hops[i] = ErrLastLineHops(r)[1]

\* C27: the handle only refers to a subprocess in flight: never to one that
\* has closed or whose spawn error was reported, so that no kill can be
\* sent to a subprocess that has terminated.
C27_HandleOnlyInFlight ==
    activeTracerouteProcess # 0 =>
        child[activeTracerouteProcess].st \in {"running", "failed"}

\* the hops that parts of text can be read as
FragmentHops(text) ==
    {parseTracerouteLine(SubSeq(text, i, j)) :
        i \in 1..Len(text), j \in 1..Len(text)} \ {Null}

\* C28: runs are isolated: the hops passed to the onHop of a run and the
\* hops of its results come from the output of that run's own subprocess,
\* in every interleaving of the events of two subprocesses.
C28_RunsIsolated ==
    \A r \in Runs :
        LET segs == SplitOn(DeliveredOut(r), "\n") IN
        /\ child[r].st = "running" => StdoutHops(r) = ParseLines(Front(segs))
        /\ child[r].st = "closed" => StdoutHops(r) = ParseLines(segs)
        /\ child[r].st \notin {"running", "closed"} => hopLog[r] = <<>>
        /\ \A i \in 1..Len(StderrHops(r)) :
              <<StderrHops(r)[i]>> \in FragmentHops(DeliveredErr(r))
        /\ \A k \in 1..Len(doneLog[r]) :
              doneLog[r][k].result.hops = Hops(hopLog[r])

\* two runs have completed: the first, superseded, without a hop and the
\* second with the hop its own child wrote
C28_Witness ==
    /\ started = 2
    /\ child[1].st = "closed" /\ child[2].st = "closed"
    /\ doneLog[1] # <<>> /\ doneLog[2] # <<>>
    /\ DeliveredOut(1) = LineX /\ hopLog[1] = <<>>
    /\ DeliveredOut(2) = LineA /\ Len(hopLog[2]) = 1
    /\ doneLog[2][1].result.hops = Hops(hopLog[2])

\* C29: once a second 'run-traceroute' request was handled, no
\* 'traceroute-hop' and no 'traceroute-result' event of the superseded first
\* trace is sent to the window: the first trace has sent the hop events it
\* had sent when the second request arrived, and no result event (stated
\* for traces whose subprocess did start).
C29_NoEventsOfSupersededTrace ==
    \A r \in Runs :
        superseded[r] /\ (child[r].st = "running" \/ Exited(r)) =>
            /\ Len(HopEventsSent(r)) = cancelledAt[r]
            /\ ResultEventsSent(r) = <<>>

\* the line has a hop number and then only the "*" of a lost probe, with or
\* without a latency: no address, no hostname and no '* * *' marker
NoAddressNoName ==
    /\ parse.in.hop.val >= 0
    /\ parse.in.host = <<"*">>
    /\ parse.in.second = <<>>
    /\ parse.in.tail # TimeoutMarker

\* C30: every Hop the parser returns is a timeout hop (address, hostname and
\* latency null) or has an address or a hostname; a line with a hop number
\* but without address, hostname and timeout marker yields no Hop.
C30_HopHasAddressOrName ==
    Parsed =>
        /\ parse.out # Null =>
              \/ /\ parse.out[1].ip = Null
                 /\ parse.out[1].hostname = Null
                 /\ parse.out[1].rtt = Null
              \/ parse.out[1].ip # Null
              \/ parse.out[1].hostname # Null
        /\ NoAddressNoName => parse.out = Null

\* the line of a hop without response when the tool sends one probe per hop
\* (-q 1): the hop number and a single "*"
SingleProbeTimeout ==
    /\ parse.in.hop.val >= 0
    /\ parse.in.host = <<"*">>
    /\ parse.in.second = <<>>
    /\ parse.in.tail = <<>>

\* C31: with one probe per hop, the line of a hop position without response
\* yields a timeout Hop (address, hostname and latency null) with its hop
\* number.
C31_SingleProbeTimeoutHop ==
    Parsed /\ SingleProbeTimeout =>
        parse.out = <<[hop |-> parse.in.hop.val, ip |-> Null,
                       hostname |-> Null, rtt |-> Null]>>

\* a hop line in the tracert layout: the latency column before the address
WindowsLine == parse.in \in WindowsInputs /\ parse.in.hop.val >= 0

\* C32: for a hop line whose latency column comes before the address, the Hop
\* has that address in ip and no latency token as hostname.
C32_WindowsLineAddress ==
    Parsed /\ WindowsLine =>
        /\ Len(parse.out) = 1
        /\ parse.out[1].ip = parse.in.tail
        /\ parse.out[1].hostname # parse.in.host

\* runTraceroute has returned on a platform with a tool
BatchDone == batch.pc = "done" /\ Supported(platform)

\* the text the hops of the result were read from
BatchOutput ==
    IF batch.ok THEN batch.stdout ELSE ErrorOutput(batch.stdout, batch.stderr)

\* C33: when the command exits non-zero and one or more hops are recovered
\* from its output, runTraceroute returns complete=true; complete=false is
\* returned only when no hop was recovered or the platform is unsupported.
C33_BatchPartialSuccess ==
    batch.pc = "done" =>
        /\ (BatchDone /\ ~batch.ok /\ batch.result[1].hops # <<>>
                => batch.result[1].complete)
        /\ (~batch.result[1].complete
                => batch.result[1].hops = <<>> \/ ~Supported(platform))

\* C34: the hops parseTracerouteOutput reads from a text are the non-null
\* results of parseTracerouteLine on the newline-separated lines of the
\* text, in order.
C34_BatchParserAgrees ==
    BatchDone =>
        batch.result[1].hops = ParseLines(SplitOn(BatchOutput, "\n"))

\* a text of several lines, with a hop, a timeout and a line without a hop
C34_Witness ==
    /\ BatchDone
    /\ Len(SplitOn(BatchOutput, "\n")) >= 2
    /\ Len(batch.result[1].hops) = 1
    /\ batch.result[1].hops[1].ip = Null
    /\ batch.result[1].hops[1].hostname = Null

\* C35: between two resets of the cache 'server-ip-resolved' is sent at most
\* once per server IP, and every IP of a completed video request of the
\* period has been reported exactly once, whatever the state of the window
\* when it was first seen; a reset starts a new period.
C35_ReportedOncePerPeriod ==
    \A i \in Ips :
        /\ reported[i] <= 1
        /\ i \in seen => reported[i] = 1

\* C36: a 'run-traceroute' request whose host cannot be reduced to a
\* hostname starts no trace and changes nothing (no subprocess, the handle
\* and the running trace untouched, no event sent); any other request calls
\* runTracerouteStreaming exactly once, with the bare hostname of its host.
C36_RequestTarget ==
    [][Len(requests') = Len(requests) + 1 =>
          LET q == requests'[Len(requests')]
          IN  IF q.host.hostname = Null
              THEN /\ q.run = 0
                   /\ UNCHANGED <<activeTracerouteProcess, started, child,
                                  buffer, hops, hopLog, doneLog, cancelledAt,
                                  superseded>>
              ELSE /\ started' = started + 1
                   /\ q.run = started'
                   /\ q.target = q.host.hostname]_vars

====
